---- MODULE Spec2Model ----
(***************************************************************************)
(* Model of src/llms/llm.py: resolution of an abstract model type into a   *)
(* chat-model client (file configuration overlaid by environment           *)
(* variables, provider dispatch, process-wide instance cache) and the      *)
(* configured-models inspector.                                            *)
(*                                                                         *)
(* Python strings are TLA+ strings; Len, \o and SubSeq act on them, so     *)
(* prefix tests, prefix stripping, lower/upper-casing and substring tests  *)
(* are computed character by character.  A Python value is a record        *)
(* [tag, s]: its type name and its printed form.                           *)
(***************************************************************************)
EXTENDS Integers, Sequences, FiniteSets, TLC

VARIABLES
    file,        \* conf.yaml on disk: a FileState
    environ,     \* os.environ: a function from variable names to strings
    _llm_cache,  \* the module-level cache: model type -> instance
    nextId,      \* number of client objects constructed so far (object identity)
    ret,         \* observation of the last finished public call
    pc,          \* per concurrent caller: position inside get_llm_by_type
    arg,         \* per concurrent caller: its llm_type argument
    local,       \* per concurrent caller: its local variables config / llm
    writes       \* per model type: number of executions of line 119 for it

vars == <<file, environ, _llm_cache, nextId, ret, pc, arg, local, writes>>

----------------------------------------------------------------------------
(* Bounds *)

MaxEnvVars == 2     \* at most this many environment variables are set at once
NumCallers == 2     \* concurrent callers of get_llm_by_type

----------------------------------------------------------------------------
(* Python values *)

V(tag, s) == [tag |-> tag, s |-> s]
Str(s)    == V("str", s)
PyTrue    == V("bool", "True")
PyFalse   == V("bool", "False")
PyNone    == V("NoneType", "None")
PyInt(s)  == V("int", s)

\* bool(value) for the value kinds that occur here
Truthy(v) ==
    CASE v.tag = "str"      -> v.s # ""
      [] v.tag = "bool"     -> v.s = "True"
      [] v.tag = "int"      -> v.s # "0"
      [] v.tag = "NoneType" -> FALSE
      [] OTHER              -> TRUE

EmptyDict == [k \in {} |-> PyNone]

\* {**a, **b}
DictMerge(a, b) ==
    [k \in (DOMAIN a) \cup (DOMAIN b) |-> IF k \in DOMAIN b THEN b[k] ELSE a[k]]

\* d.get(k, default)
DictGet(d, k, default) == IF k \in DOMAIN d THEN d[k] ELSE default

\* d without key k (the mapping left behind by d.pop(k, ...))
DictRemove(d, k) == [j \in (DOMAIN d) \ {k} |-> d[j]]

\* d[k] = v
DictSet(d, k, v) == [j \in (DOMAIN d) \cup {k} |-> IF j = k THEN v ELSE d[j]]

----------------------------------------------------------------------------
(* str methods *)

UpperLetters == "ABCDEFGHIJKLMNOPQRSTUVWXYZ"
LowerLetters == "abcdefghijklmnopqrstuvwxyz"

LetterIndex(alphabet, c) ==
    IF \E i \in 1..Len(alphabet) : SubSeq(alphabet, i, i) = c
    THEN CHOOSE i \in 1..Len(alphabet) : SubSeq(alphabet, i, i) = c
    ELSE 0

LowerChar(c) ==
    LET i == LetterIndex(UpperLetters, c)
    IN  IF i = 0 THEN c ELSE SubSeq(LowerLetters, i, i)

UpperChar(c) ==
    LET i == LetterIndex(LowerLetters, c)
    IN  IF i = 0 THEN c ELSE SubSeq(UpperLetters, i, i)

RECURSIVE StrLower(_)
StrLower(s) ==
    IF Len(s) = 0 THEN ""
    ELSE LowerChar(SubSeq(s, 1, 1)) \o StrLower(SubSeq(s, 2, Len(s)))

RECURSIVE StrUpper(_)
StrUpper(s) ==
    IF Len(s) = 0 THEN ""
    ELSE UpperChar(SubSeq(s, 1, 1)) \o StrUpper(SubSeq(s, 2, Len(s)))

\* s.startswith(p)
StartsWith(s, p) == Len(s) >= Len(p) /\ SubSeq(s, 1, Len(p)) = p

\* m in s
Contains(s, m) ==
    \E i \in 1..(Len(s) - Len(m) + 1) : SubSeq(s, i, i + Len(m) - 1) = m

----------------------------------------------------------------------------
(* Model types and the section registry *)

LLMType == {"reasoning", "basic", "vision", "code"}

\* get_args(LLMType), in declaration order
LLMTypeArgs == <<"reasoning", "basic", "vision", "code">>

\* a value a caller may pass that is not a model type
UnknownType == "unknown"

CallTypes == LLMType \cup {UnknownType}

_llm_type_to_config_key ==
    [t \in LLMType |->
        CASE t = "reasoning" -> "REASONING_MODEL"
          [] t = "basic"     -> "BASIC_MODEL"
          [] t = "vision"    -> "VISION_MODEL"
          [] t = "code"      -> "CODE_MODEL"]

----------------------------------------------------------------------------
(* Environment variables *)

\* line 50: prefix = f"{llm_type.upper()}_MODEL__"
EnvPrefix(llm_type) == StrUpper(llm_type) \o "_MODEL__"

\* line 54: the variables the loop accepts
EnvMatching(prefix, env) == {key \in DOMAIN env : StartsWith(key, prefix)}

\* line 55: key[len(prefix):].lower()
NormalizedKey(prefix, key) == StrLower(SubSeq(key, Len(prefix) + 1, Len(key)))

\* The mappings _read_env_llm_config can return.  Two variables whose names
\* differ only in the case of the option part normalise to one key; the one
\* met last in os.environ's iteration order wins, and that order is not
\* fixed by the program, so either value may be the one kept.
_read_env_llm_config(llm_type, env) ==
    LET prefix   == EnvPrefix(llm_type)
        matching == EnvMatching(prefix, env)
        norm     == [key \in matching |-> NormalizedKey(prefix, key)]
        keys     == {norm[key] : key \in matching}
        vals(k)  == {Str(env[key]) : key \in {n \in matching : norm[n] = k}}
    IN  {f \in [keys -> UNION {vals(k) : k \in keys}] : \A k \in keys : f[k] \in vals(k)}

----------------------------------------------------------------------------
(* The configuration file and its loader *)

\* A section of conf.yaml: a mapping of options, or some other YAML value.
Section(d)   == [isdict |-> TRUE, d |-> d]
NotAMapping  == [isdict |-> FALSE, d |-> EmptyDict]

Raise(error) ==
    [outcome |-> "raise", error |-> error, cls |-> "", kwargs |-> EmptyDict,
     merged |-> EmptyDict]

Built(cls, kwargs, merged) ==
    [outcome |-> "ok", error |-> "", cls |-> cls, kwargs |-> kwargs,
     merged |-> merged]

\* load_yaml_config(path): the parsed top-level mapping, or an error when
\* the file is missing or cannot be parsed.
load_yaml_config(f) ==
    IF f.kind = "mapping"
    THEN [outcome |-> "ok", error |-> "", config |-> f.sections]
    ELSE [outcome |-> "raise",
          error |-> IF f.kind = "missing" THEN "FileNotFoundError" ELSE "YAMLError",
          config |-> [k \in {} |-> NotAMapping]]

----------------------------------------------------------------------------
(* _build_llm_instance *)

\* line 73: isinstance(yaml_conf, dict)
IsDict_Always(yaml_conf) == TRUE

IsDict(yaml_conf) == yaml_conf.isdict

MergeConf_FileWins(yaml_conf, env_conf) == DictMerge(env_conf, yaml_conf)

\* line 77: merged = {**yaml_conf, **env_conf}
MergeConf(yaml_conf, env_conf) == DictMerge(yaml_conf, env_conf)

\* line 83: merged.setdefault("max_retries", 3)
SetDefaultRetries(merged) ==
    IF "max_retries" \in DOMAIN merged THEN merged
    ELSE DictSet(merged, "max_retries", PyInt("3"))

HttpClientNoVerify      == V("httpx.Client", "verify=False")
HttpAsyncClientNoVerify == V("httpx.AsyncClient", "verify=False")

\* lines 86-88: the verify_ssl key is popped whatever its value; the two
\* transports are added only when the popped value is the object False
ApplyVerifySsl(merged) ==
    LET popped == DictGet(merged, "verify_ssl", PyTrue)
        rest   == DictRemove(merged, "verify_ssl")
    IN  IF popped = PyFalse
        THEN DictSet(DictSet(rest, "http_client", HttpClientNoVerify),
                     "http_async_client", HttpAsyncClientNoVerify)
        ELSE rest

IsAzure_KeyOnly(merged, env) == "azure_endpoint" \in DOMAIN merged

\* line 91: os.getenv returns None when unset, and "" is falsy
IsAzure(merged, env) ==
    \/ "azure_endpoint" \in DOMAIN merged
    \/ ("AZURE_OPENAI_ENDPOINT" \in DOMAIN env /\ env["AZURE_OPENAI_ENDPOINT"] # "")

VendorMarker == "dashscope."

ExtraBody_AlwaysThinking(llm_type) == V("dict", "enable_thinking=True")

\* line 97: {"enable_thinking": llm_type == "reasoning"}
ExtraBody(llm_type) ==
    V("dict", IF llm_type = "reasoning" THEN "enable_thinking=True"
              ELSE "enable_thinking=False")

RenameBaseUrl_KeepsKey(merged) ==
    DictSet(merged, "api_base", DictGet(merged, "base_url", PyNone))

\* line 102: merged["api_base"] = merged.pop("base_url", None)
RenameBaseUrl(merged) ==
    DictSet(DictRemove(merged, "base_url"), "api_base",
            DictGet(merged, "base_url", PyNone))

\* lines 90-106: ordered provider rules over the normalised arguments.
\* `"dashscope." in base_url` raises TypeError when base_url is not a str.
Dispatch(llm_type, merged, kwargs, env) ==
    IF IsAzure(kwargs, env) THEN Built("AzureChatOpenAI", kwargs, merged)
    ELSE LET base_url == DictGet(kwargs, "base_url", Str(""))
         IN  IF base_url.tag # "str" THEN Raise("TypeError")
             ELSE IF Contains(base_url.s, VendorMarker)
             THEN Built("ChatDashscope",
                        DictSet(kwargs, "extra_body", ExtraBody(llm_type)), merged)
             ELSE IF llm_type = "reasoning"
             THEN Built("ChatDeepSeek", RenameBaseUrl(kwargs), merged)
             ELSE Built("ChatOpenAI", kwargs, merged)

\* lines 64-106 for one outcome env_conf of the environment scan.  The
\* result carries the mapping of line 77 (merged) beside the constructor's
\* class and keyword arguments.
BuildWith(llm_type, config, env_conf, env) ==
    IF llm_type \notin DOMAIN _llm_type_to_config_key
    THEN Raise("ValueError: Unknown LLM type")
    ELSE LET config_key == _llm_type_to_config_key[llm_type]
             yaml_conf  == DictGet(config, config_key, Section(EmptyDict))
         IN  IF ~ IsDict(yaml_conf)
             THEN Raise("ValueError: Invalid configuration")
             ELSE LET merged == MergeConf(yaml_conf.d, env_conf)
                  IN  IF DOMAIN merged = {}
                      THEN Raise("ValueError: No configuration found")
                      ELSE Dispatch(llm_type, merged,
                                    ApplyVerifySsl(SetDefaultRetries(merged)), env)

\* the results _build_llm_instance(llm_type, config) can produce
_build_llm_instance(llm_type, config, env) ==
    {BuildWith(llm_type, config, env_conf, env) :
        env_conf \in _read_env_llm_config(llm_type, env)}

----------------------------------------------------------------------------
(* get_configured_llm_models *)

EmptyModels == [t \in {} |-> <<>>]

\* line 142: result.setdefault(llm_type, []).append(model_name)
AppendModel(result, llm_type, model_name) ==
    DictSet(result, llm_type, Append(DictGet(result, llm_type, <<>>), model_name))

\* lines 134-142 from the i-th model type on, result being the mapping
\* accumulated so far: the set of ways the loop can end.  Unpacking a
\* section that is not a mapping at line 138 raises TypeError; the record
\* then carries the value the local variable result had at that moment.
RECURSIVE CollectModels(_, _, _, _)
CollectModels(i, config, env, result) ==
    IF i > Len(LLMTypeArgs)
    THEN {[raised |-> FALSE, result |-> result]}
    ELSE LET llm_type  == LLMTypeArgs[i]
             yaml_conf == DictGet(config,
                                  DictGet(_llm_type_to_config_key, llm_type, ""),
                                  Section(EmptyDict))
         IN  IF ~ yaml_conf.isdict
             THEN {[raised |-> TRUE, result |-> result]}
             ELSE UNION {
                    LET merged     == MergeConf(yaml_conf.d, env_conf)
                        model_name == DictGet(merged, "model", PyNone)
                    IN  CollectModels(i + 1, config, env,
                            IF Truthy(model_name)
                            THEN AppendModel(result, llm_type, model_name)
                            ELSE result)
                    : env_conf \in _read_env_llm_config(llm_type, env)}

\* lines 130-144, the body of the try block
TryCollect(f, env) ==
    LET loaded == load_yaml_config(f)
    IN  IF loaded.outcome = "raise"
        THEN {[raised |-> TRUE, result |-> EmptyModels]}
        ELSE CollectModels(1, loaded.config, env, EmptyModels)

CatchAll_Propagates(attempt) ==
    [outcome |-> IF attempt.raised THEN "raise" ELSE "ok",
     models  |-> IF attempt.raised THEN EmptyModels ELSE attempt.result]

CatchAll_ReturnsPartial(attempt) ==
    [outcome |-> "ok", models |-> attempt.result]

\* lines 144-148: return result, or {} from the except clause
CatchAll(attempt) ==
    [outcome |-> "ok",
     models  |-> IF attempt.raised THEN EmptyModels ELSE attempt.result]

----------------------------------------------------------------------------
(* Inputs: option mappings, files and environment variables *)

DashscopeUrl == "https://dashscope.aliyuncs.com/v1"
DeepseekUrl  == "https://api.deepseek.com"
AzureUrl     == "https://az.openai.azure.com"

SecPlain ==
    Section([k \in {"model", "api_key"} |->
                IF k = "model" THEN Str("gpt-4o-mini") ELSE Str("k1")])
SecVendor ==
    Section([k \in {"model", "base_url"} |->
                IF k = "model" THEN Str("qwen-plus") ELSE Str(DashscopeUrl)])
SecBaseUrl ==
    Section([k \in {"model", "base_url", "max_retries"} |->
                CASE k = "model" -> Str("deepseek-r1")
                  [] k = "base_url" -> Str(DeepseekUrl)
                  [] OTHER -> PyInt("5")])
SecNoVerify ==
    Section([k \in {"model", "base_url", "verify_ssl"} |->
                CASE k = "model" -> Str("local")
                  [] k = "base_url" -> Str(DeepseekUrl)
                  [] OTHER -> PyFalse])
SecVerify ==
    Section([k \in {"model", "verify_ssl"} |->
                IF k = "model" THEN Str("strict") ELSE PyTrue])
SecAzureVendor ==
    Section([k \in {"azure_endpoint", "base_url"} |->
                IF k = "azure_endpoint" THEN Str(AzureUrl) ELSE Str(DashscopeUrl)])
SecNullBaseUrl ==
    Section([k \in {"model", "base_url"} |->
                IF k = "model" THEN Str("") ELSE PyNone])
SecEmpty == Section(EmptyDict)

SectionValues ==
    {SecPlain, SecVendor, SecBaseUrl, SecNoVerify, SecVerify, SecAzureVendor,
     SecNullBaseUrl, SecEmpty, NotAMapping}

SectionIds == {_llm_type_to_config_key[t] : t \in LLMType}

MissingFile    == [kind |-> "missing", sections |-> [k \in {} |-> NotAMapping]]
UnparsableFile == [kind |-> "unparsable", sections |-> [k \in {} |-> NotAMapping]]
MappingFile(sections) == [kind |-> "mapping", sections |-> sections]

\* every section holds the same value
UniformFile(sec) == MappingFile([k \in SectionIds |-> sec])

\* every section plain or not a mapping; or some sections plain, the rest absent
MixedFiles ==
    {MappingFile(m) : m \in [SectionIds -> {SecPlain, NotAMapping}]}
        \cup {MappingFile([k \in ids |-> SecPlain]) : ids \in SUBSET SectionIds}

FileStates ==
    {MissingFile, UnparsableFile} \cup {UniformFile(sec) : sec \in SectionValues}
        \cup MixedFiles

\* the values each environment variable may take
EnvChoices(name) ==
    CASE name = "BASIC_MODEL__MODEL"              -> {"env-model", ""}
      [] name = "BASIC_MODEL__model"              -> {"env-model-lc"}
      [] name = "basic_model__MODEL"              -> {"ignored"}
      [] name = "BASIC_MODEL__VERIFY_SSL"         -> {"false"}
      [] name = "REASONING_MODEL__BASE_URL"       -> {DashscopeUrl, DeepseekUrl}
      [] name = "REASONING_MODEL__Verify_Ssl"     -> {"false"}
      [] name = "REASONING_MODEL__AZURE_ENDPOINT" -> {AzureUrl}
      [] name = "CODE_MODEL__MODEL"               -> {"env-code"}
      [] name = "AZURE_OPENAI_ENDPOINT"           -> {"", AzureUrl}

EnvNames ==
    {"BASIC_MODEL__MODEL", "BASIC_MODEL__model", "basic_model__MODEL",
     "BASIC_MODEL__VERIFY_SSL", "REASONING_MODEL__BASE_URL",
     "REASONING_MODEL__Verify_Ssl", "REASONING_MODEL__AZURE_ENDPOINT",
     "CODE_MODEL__MODEL", "AZURE_OPENAI_ENDPOINT"}

EnvValues == UNION {EnvChoices(n) : n \in EnvNames}

EnvStates ==
    UNION {{e \in [names -> EnvValues] : \A n \in names : e[n] \in EnvChoices(n)} :
           names \in {ns \in SUBSET EnvNames : Cardinality(ns) <= MaxEnvVars}}

----------------------------------------------------------------------------
(* State *)

Callers == 1..NumCallers

\* a constructed client: id is the object's identity
Instance(id, built) == [id |-> id, cls |-> built.cls, kwargs |-> built.kwargs]
NoInstance == [id |-> 0, cls |-> "", kwargs |-> EmptyDict]

NoConfig == [k \in {} |-> NotAMapping]
NoLocal  == [config |-> NoConfig, llm |-> NoInstance]

NoRet ==
    [op |-> "none", arg |-> "", cfg |-> "", outcome |-> "none", error |-> "",
     built |-> FALSE, value |-> NoInstance, merged |-> EmptyDict,
     models |-> EmptyModels, partial |-> EmptyModels]

\* What the configuration holds for llm_type when a call starts: the
\* conditions of lines 69, 73 and 79, and whether the file loads.
ConfigStatus(llm_type, f, env) ==
    IF llm_type \notin DOMAIN _llm_type_to_config_key THEN "unknown_type"
    ELSE IF f.kind # "mapping" THEN "load_error"
    ELSE LET yaml_conf == DictGet(f.sections, _llm_type_to_config_key[llm_type],
                                  Section(EmptyDict))
         IN  IF ~ yaml_conf.isdict THEN "not_mapping"
             ELSE IF DOMAIN yaml_conf.d = {} /\ EnvMatching(EnvPrefix(llm_type), env) = {}
             THEN "empty"
             ELSE "configured"

\* a finished get_llm_by_type / _build_llm_instance call; cfg is the
\* ConfigStatus the call started with
CallRet(op, llm_type, cfg, outcome, error, built, value, merged) ==
    [op |-> op, arg |-> llm_type, cfg |-> cfg, outcome |-> outcome, error |-> error,
     built |-> built, value |-> value, merged |-> merged,
     models |-> EmptyModels, partial |-> EmptyModels]

\* a finished get_configured_llm_models call; cfg is the kind of file it
\* met, error tells whether the except clause ran, partial is the value the
\* local variable result had when the try block was left
ModelsRet(returned, attempt, f) ==
    [op |-> "get_configured_llm_models", arg |-> "", cfg |-> f.kind,
     outcome |-> returned.outcome,
     error |-> IF attempt.raised THEN "caught" ELSE "", built |-> FALSE, value |-> NoInstance, merged |-> EmptyDict,
     models |-> returned.models, partial |-> attempt.result]

InitShared ==
    /\ _llm_cache = [t \in {} |-> NoInstance]
    /\ nextId = 0
    /\ ret = NoRet
    /\ pc = [c \in Callers |-> "idle"]
    /\ arg = [c \in Callers |-> ""]
    /\ local = [c \in Callers |-> NoLocal]
    /\ writes = [t \in LLMType |-> 0]

callerVars == <<pc, arg, local>>

----------------------------------------------------------------------------
(* get_llm_by_type, one call at a time *)

CacheHit_Never(llm_type) == FALSE

\* line 114
CacheHit(llm_type) == llm_type \in DOMAIN _llm_cache

\* lines 112-121 as one call
GetLlmByType(llm_type) ==
    LET Return(outcome, error, built, value) ==
            CallRet("get_llm_by_type", llm_type,
                    ConfigStatus(llm_type, file, environ),
                    outcome, error, built, value, EmptyDict)
    IN
    /\ IF CacheHit(llm_type)
       THEN /\ ret' = Return("ok", "", FALSE, _llm_cache[llm_type])
            /\ UNCHANGED <<_llm_cache, nextId, writes>>
       ELSE LET loaded == load_yaml_config(file)
            IN  IF loaded.outcome = "raise"
                THEN /\ ret' = Return("raise", loaded.error, FALSE, NoInstance)
                     /\ UNCHANGED <<_llm_cache, nextId, writes>>
                ELSE \E built \in _build_llm_instance(llm_type, loaded.config, environ) :
                        IF built.outcome = "raise"
                        THEN /\ ret' = Return("raise", built.error, TRUE, NoInstance)
                             /\ UNCHANGED <<_llm_cache, nextId, writes>>
                        ELSE LET llm == Instance(nextId + 1, built)
                             IN  /\ nextId' = nextId + 1
                                 /\ _llm_cache' = DictSet(_llm_cache, llm_type, llm)
                                 /\ writes' = [writes EXCEPT ![llm_type] = @ + 1]
                                 /\ ret' = Return("ok", "", TRUE, llm)
    /\ UNCHANGED <<file, environ, callerVars>>

\* lines 124-148
GetConfiguredLlmModels ==
    /\ \E attempt \in TryCollect(file, environ) :
          ret' = ModelsRet(CatchAll(attempt), attempt, file)
    /\ UNCHANGED <<file, environ, _llm_cache, nextId, writes, callerVars>>

----------------------------------------------------------------------------
(* The surroundings: conf.yaml is rewritten, variables are set and unset *)

BrokenBasicFile ==
    MappingFile([k \in SectionIds |->
                    IF k = "BASIC_MODEL" THEN NotAMapping ELSE SecPlain])

\* the files and variables that change while the cache lives
CacheFiles ==
    {MissingFile, UnparsableFile, UniformFile(SecPlain), BrokenBasicFile,
     MappingFile(NoConfig)}

CacheEnvNames == {"BASIC_MODEL__MODEL", "CODE_MODEL__MODEL"}

WriteConfigFile(f) ==
    /\ f # file
    /\ file' = f
    /\ UNCHANGED <<environ, _llm_cache, nextId, ret, writes, callerVars>>

SetEnv(name, value) ==
    /\ name \in DOMAIN environ \/ Cardinality(DOMAIN environ) < MaxEnvVars
    /\ environ' = DictSet(environ, name, value)
    /\ environ' # environ
    /\ UNCHANGED <<file, _llm_cache, nextId, ret, writes, callerVars>>

UnsetEnv(name) ==
    /\ name \in DOMAIN environ
    /\ environ' = DictRemove(environ, name)
    /\ UNCHANGED <<file, _llm_cache, nextId, ret, writes, callerVars>>

Init ==
    /\ file \in CacheFiles
    /\ environ = [n \in {} |-> ""]
    /\ InitShared

Next ==
    \/ \E t \in CallTypes : GetLlmByType(t)
    \/ GetConfiguredLlmModels
    \/ \E f \in CacheFiles : WriteConfigFile(f)
    \/ \E n \in CacheEnvNames : \E v \in EnvChoices(n) \ {""} : SetEnv(n, v)
    \/ \E n \in CacheEnvNames : UnsetEnv(n)

Spec == Init /\ [][Next]_vars

----------------------------------------------------------------------------
(* _build_llm_instance and the inspector over all inputs *)

\* lines 64-106 applied to the loaded configuration
BuildLlmInstance(llm_type) ==
    /\ load_yaml_config(file).outcome = "ok"
    /\ \E built \in _build_llm_instance(llm_type, load_yaml_config(file).config, environ) :
          ret' = CallRet("_build_llm_instance", llm_type,
                         ConfigStatus(llm_type, file, environ), built.outcome, built.error,
                         TRUE, Instance(0, built), built.merged)
    /\ UNCHANGED <<file, environ, _llm_cache, nextId, writes, callerVars>>

InitBuild ==
    /\ file \in FileStates
    /\ environ \in EnvStates
    /\ InitShared

NextBuild ==
    \/ \E t \in CallTypes : BuildLlmInstance(t)
    \/ GetConfiguredLlmModels

SpecBuild == InitBuild /\ [][NextBuild]_vars

----------------------------------------------------------------------------
(* get_llm_by_type called by several threads: one step per source line *)

\* lines 114-115
Check(c, llm_type) ==
    /\ pc[c] = "idle"
    /\ arg' = [arg EXCEPT ![c] = llm_type]
    /\ IF CacheHit(llm_type)
       THEN /\ local' = [local EXCEPT ![c].llm = _llm_cache[llm_type]]
            /\ pc' = [pc EXCEPT ![c] = "done"]
       ELSE /\ pc' = [pc EXCEPT ![c] = "load"]
            /\ UNCHANGED local
    /\ UNCHANGED <<file, environ, _llm_cache, nextId, ret, writes>>

\* line 117
Load(c) ==
    /\ pc[c] = "load"
    /\ LET loaded == load_yaml_config(file)
       IN  IF loaded.outcome = "raise"
           THEN /\ pc' = [pc EXCEPT ![c] = "raised"]
                /\ UNCHANGED local
           ELSE /\ pc' = [pc EXCEPT ![c] = "build"]
                /\ local' = [local EXCEPT ![c].config = loaded.config]
    /\ UNCHANGED <<file, environ, _llm_cache, nextId, ret, arg, writes>>

\* line 118
Build(c) ==
    /\ pc[c] = "build"
    /\ \E built \in _build_llm_instance(arg[c], local[c].config, environ) :
          IF built.outcome = "raise"
          THEN /\ pc' = [pc EXCEPT ![c] = "raised"]
               /\ UNCHANGED <<local, nextId>>
          ELSE /\ pc' = [pc EXCEPT ![c] = "store"]
               /\ nextId' = nextId + 1
               /\ local' = [local EXCEPT ![c].llm = Instance(nextId + 1, built)]
    /\ UNCHANGED <<file, environ, _llm_cache, ret, arg, writes>>

\* lines 119-121
Store(c) ==
    /\ pc[c] = "store"
    /\ _llm_cache' = DictSet(_llm_cache, arg[c], local[c].llm)
    /\ writes' = [writes EXCEPT ![arg[c]] = @ + 1]
    /\ pc' = [pc EXCEPT ![c] = "done"]
    /\ UNCHANGED <<file, environ, nextId, ret, arg, local>>

ConcFiles == {UniformFile(SecPlain), BrokenBasicFile, MissingFile}

InitConc ==
    /\ file \in ConcFiles
    /\ environ = [n \in {} |-> ""]
    /\ InitShared

NextConc ==
    \/ \E c \in Callers : \E t \in CallTypes : Check(c, t)
    \/ \E c \in Callers : Load(c)
    \/ \E c \in Callers : Build(c)
    \/ \E c \in Callers : Store(c)

SpecConc == InitConc /\ [][NextConc]_vars

----------------------------------------------------------------------------
(* What the configuration says, read off the file and the environment *)

IsGet   == ret.op = "get_llm_by_type"
IsBuild == ret.op = "_build_llm_instance"
IsList  == ret.op = "get_configured_llm_models"

\* the file's option mapping for a model type (empty when there is none)
FileOptions(t) ==
    IF file.kind = "mapping" /\ _llm_type_to_config_key[t] \in DOMAIN file.sections
    THEN file.sections[_llm_type_to_config_key[t]].d
    ELSE EmptyDict

\* per option key, the values of the variables {TYPE}_MODEL__<option> whose
\* option part, lower-cased, is that key
Overrides(t) ==
    LET prefix == StrUpper(t) \o "_MODEL__"
        names  == {n \in DOMAIN environ :
                     Len(n) >= Len(prefix) /\ SubSeq(n, 1, Len(prefix)) = prefix}
        keyOf  == [n \in names |-> StrLower(SubSeq(n, Len(prefix) + 1, Len(n)))]
    IN  [k \in {keyOf[n] : n \in names} |->
            {Str(environ[n]) : n \in {m \in names : keyOf[m] = k}}]

\* per option key, the values the overlay may give it: an override when
\* there is one, the file's value otherwise
Expected(t) ==
    LET ov == Overrides(t)
        fo == FileOptions(t)
    IN  [k \in (DOMAIN ov) \cup (DOMAIN fo) |->
            IF k \in DOMAIN ov THEN ov[k] ELSE {fo[k]}]

\* a build that got as far as the provider rules
Dispatched ==
    /\ IsBuild
    /\ ret.arg \in LLMType
    /\ ret.cfg = "configured"

AzureRule(exp) ==
    \/ "azure_endpoint" \in DOMAIN exp
    \/ ("AZURE_OPENAI_ENDPOINT" \in DOMAIN environ /\ environ["AZURE_OPENAI_ENDPOINT"] # "")

VendorRule(exp) ==
    /\ "base_url" \in DOMAIN exp
    /\ \E v \in exp["base_url"] : v.tag = "str" /\ Contains(v.s, "dashscope.")

\* base_url is missing or a string, so that the marker test can be made
BaseUrlTestable(exp) ==
    "base_url" \in DOMAIN exp => \A v \in exp["base_url"] : v.tag = "str"

SameAsMerged(k) ==
    /\ k \in DOMAIN ret.value.kwargs <=> k \in DOMAIN ret.merged
    /\ k \in DOMAIN ret.merged => ret.value.kwargs[k] = ret.merged[k]

----------------------------------------------------------------------------
(* Claims *)

\* C1: under calls made one at a time, interleaved with changes of the file
\* and of the environment, a cache entry is written at most once and is
\* never replaced or removed, and a call for a cached type returns that
\* very instance without constructing anything.
C1_CacheIdentity ==
    /\ [](\A t \in LLMType : writes[t] <= 1)
    /\ [][\A t \in DOMAIN _llm_cache :
            /\ t \in DOMAIN _llm_cache'
            /\ _llm_cache'[t] = _llm_cache[t]
            /\ (ret' # ret /\ ret'.op = "get_llm_by_type" /\ ret'.arg = t)
                 => /\ ret'.outcome = "ok"
                    /\ ret'.value = _llm_cache[t]
                    /\ ~ ret'.built
                    /\ nextId' = nextId]_vars

\* a cached instance was returned although the configuration had meanwhile
\* become unusable for that type
C1_Witness ==
    /\ IsGet /\ ret.outcome = "ok" /\ ~ ret.built
    /\ ret.cfg \in {"load_error", "not_mapping", "empty"}
    /\ ret.value = _llm_cache[ret.arg]

\* C2: with concurrent callers, the entry of a type is written at most once
\* and all callers that finished for one type hold the same instance.
C2_SingleInsert ==
    /\ \A t \in LLMType : writes[t] <= 1
    /\ \A c1, c2 \in Callers :
          (pc[c1] = "done" /\ pc[c2] = "done" /\ arg[c1] = arg[c2])
             => local[c1].llm = local[c2].llm

\* C3: the mapping of line 77 holds a key iff the file section or the
\* environment overrides hold it; an overridden key has an environment
\* value, any other key its file value.
C3_OverridePrecedence ==
    (Dispatched /\ ret.outcome = "ok") =>
        LET exp == Expected(ret.arg)
        IN  /\ DOMAIN ret.merged = DOMAIN exp
            /\ \A k \in DOMAIN exp : ret.merged[k] \in exp[k]

\* an option set in the file and overridden by the environment
C3_Witness ==
    /\ Dispatched /\ ret.outcome = "ok" /\ ret.arg = "basic"
    /\ "model" \in DOMAIN FileOptions("basic")
    /\ "BASIC_MODEL__MODEL" \in DOMAIN environ
    /\ ret.merged["model"] = Str(environ["BASIC_MODEL__MODEL"])
    /\ ret.merged["model"] # FileOptions("basic")["model"]
    /\ ret.merged["api_key"] = FileOptions("basic")["api_key"]

\* C4: verify_ssl=false in the merged configuration, from the file (False)
\* or from the environment (the string), is removed from the constructor's
\* arguments and both transports with verification disabled are passed;
\* otherwise no transport is passed.
C4_SslFlagConsumed ==
    (Dispatched /\ ret.outcome = "ok") =>
        LET off == /\ "verify_ssl" \in DOMAIN ret.merged
                   /\ \/ ret.merged["verify_ssl"] = PyFalse
                      \/ /\ ret.merged["verify_ssl"].tag = "str"
                         /\ StrLower(ret.merged["verify_ssl"].s) = "false"
            kwargs == ret.value.kwargs
        IN  IF off
            THEN /\ "verify_ssl" \notin DOMAIN kwargs
                 /\ "http_client" \in DOMAIN kwargs
                 /\ kwargs["http_client"] = HttpClientNoVerify
                 /\ "http_async_client" \in DOMAIN kwargs
                 /\ kwargs["http_async_client"] = HttpAsyncClientNoVerify
            ELSE /\ "http_client" \notin DOMAIN kwargs
                 /\ "http_async_client" \notin DOMAIN kwargs

\* C5: when azure_endpoint is configured (file or override) or
\* AZURE_OPENAI_ENDPOINT is non-empty, the Azure client is constructed for
\* every type and base_url, with no thinking flag and no rename; every
\* construction is of exactly one of the four classes.
C5_AzureFirst ==
    /\ (IsBuild /\ ret.outcome = "ok") =>
          ret.value.cls \in {"AzureChatOpenAI", "ChatDashscope", "ChatDeepSeek", "ChatOpenAI"}
    /\ (Dispatched /\ AzureRule(Expected(ret.arg))) =>
          /\ ret.outcome = "ok"
          /\ ret.value.cls = "AzureChatOpenAI"
          /\ SameAsMerged("extra_body")
          /\ SameAsMerged("api_base")
          /\ SameAsMerged("base_url")

\* Azure chosen for type reasoning although base_url carries the marker
C5_Witness ==
    /\ Dispatched /\ AzureRule(Expected(ret.arg)) /\ VendorRule(Expected(ret.arg))
    /\ ret.arg = "reasoning"
    /\ ret.value.cls = "AzureChatOpenAI"

\* C6: without the Azure rule, a base_url containing "dashscope." selects
\* the vendor client for each of the four types, with enable_thinking true
\* iff the type is reasoning, and base_url is not renamed.
C6_VendorThinking ==
    (Dispatched /\ ~ AzureRule(Expected(ret.arg)) /\ VendorRule(Expected(ret.arg))
        /\ BaseUrlTestable(Expected(ret.arg))) =>
        /\ ret.outcome = "ok"
        /\ ret.value.cls = "ChatDashscope"
        /\ "extra_body" \in DOMAIN ret.value.kwargs
        /\ ret.value.kwargs["extra_body"] =
              V("dict", IF ret.arg = "reasoning" THEN "enable_thinking=True"
                        ELSE "enable_thinking=False")
        /\ SameAsMerged("base_url")
        /\ SameAsMerged("api_base")

\* the vendor client built for a type other than reasoning
C6_Witness ==
    /\ Dispatched /\ ~ AzureRule(Expected(ret.arg)) /\ VendorRule(Expected(ret.arg))
    /\ ret.arg = "vision"
    /\ ret.value.cls = "ChatDashscope"
    /\ ret.value.kwargs["extra_body"] = V("dict", "enable_thinking=False")

BadConfig == {"unknown_type", "not_mapping", "empty"}

\* C8 as stated: an unknown type, a section that is not a mapping, or a
\* type without any configuration makes get_llm_by_type raise.
C8_RaisesOnBadConfig ==
    (IsGet /\ ret.cfg \in BadConfig) => ret.outcome = "raise"

\* C8, amended: for a type that has no cache entry, each of the three
\* conditions makes the call raise; a call that raises changes nothing in
\* the cache; the cache changes only by a successful call, which leaves
\* the other entries as they were; a call for a configured type succeeds
\* and its instance is the cached one.
C8_FailFast ==
    [][/\ \A t \in CallTypes :
            (ret' # ret /\ ret'.op = "get_llm_by_type" /\ ret'.arg = t) =>
                /\ (t \notin DOMAIN _llm_cache /\ ret'.cfg \in BadConfig)
                      => ret'.outcome = "raise"
                /\ ret'.outcome = "raise" => _llm_cache' = _llm_cache
                /\ ret'.cfg = "configured" =>
                      /\ ret'.outcome = "ok"
                      /\ t \in DOMAIN _llm_cache'
                      /\ _llm_cache'[t] = ret'.value
                /\ \A u \in DOMAIN _llm_cache :
                      u \in DOMAIN _llm_cache' /\ _llm_cache'[u] = _llm_cache[u]
       /\ _llm_cache' # _llm_cache =>
             ret'.op = "get_llm_by_type" /\ ret'.outcome = "ok"]_vars

\* a call failed on a section that is not a mapping while other types were
\* cached
C8_Witness ==
    /\ IsGet /\ ret.outcome = "raise" /\ ret.cfg = "not_mapping"
    /\ ret.arg \notin DOMAIN _llm_cache
    /\ DOMAIN _llm_cache # {}

\* C9: get_configured_llm_models always returns, and what it returns maps
\* model types to non-empty lists; with a missing file it returns the
\* empty mapping; the call leaves the instance cache as it was.
C9_InspectorTotal ==
    /\ [](IsList =>
            /\ ret.outcome = "ok"
            /\ DOMAIN ret.models \subseteq LLMType
            /\ \A t \in DOMAIN ret.models : Len(ret.models[t]) >= 1
            /\ ret.cfg = "missing" => ret.models = EmptyModels)
    /\ [][(ret' # ret /\ ret'.op = "get_configured_llm_models") =>
            /\ _llm_cache' = _llm_cache
            /\ nextId' = nextId
            /\ writes' = writes]_vars

\* the inspector met a missing file while instances were cached
C9_Witness ==
    /\ IsList /\ ret.cfg = "missing" /\ ret.outcome = "ok"
    /\ ret.models = EmptyModels
    /\ DOMAIN _llm_cache # {}

\* C10 as stated: the result is the mapping accumulated up to the failure.
C10_PartialResult ==
    IsList => ret.models = ret.partial

\* C10, amended: a failure at any model type empties the whole result; a
\* call without failure reports, for each type, the one-element list of its
\* overlaid model value (an override when there is one, else the file's)
\* when that value is truthy, and does not report the type otherwise.
C10_AllOrNothing ==
    IsList =>
        /\ ret.error = "caught" <=>
              \/ file.kind # "mapping"
              \/ \E id \in DOMAIN file.sections : ~ file.sections[id].isdict
        /\ ret.error = "caught" => ret.models = EmptyModels
        /\ ret.error # "caught" =>
              \A t \in LLMType :
                 LET exp == Expected(t)
                 IN  IF t \in DOMAIN ret.models
                     THEN /\ "model" \in DOMAIN exp
                          /\ Len(ret.models[t]) = 1
                          /\ ret.models[t][1] \in exp["model"]
                          /\ Truthy(ret.models[t][1])
                     ELSE "model" \in DOMAIN exp =>
                             \E v \in exp["model"] : ~ Truthy(v)

\* names had been accumulated when a later type failed, and nothing was
\* returned
C10_Witness ==
    /\ IsList /\ ret.error = "caught"
    /\ ret.partial # EmptyModels
    /\ ret.models = EmptyModels

====
